---- MODULE Spec2Model ----
(***************************************************************************)
(* Financial planner backend (financial_planner_api.py, model_trainer.py). *)
(*                                                                         *)
(* The module-level model load, the four routes and the two helper         *)
(* functions are modelled.  Python floats are modelled as exact rationals  *)
(* [n |-> numerator, d |-> positive denominator]; builtin round() is       *)
(* round-half-to-even, as in Python 3.  The fitted regressor is opaque in  *)
(* the source (a pickled estimator); it is modelled as one of a few linear *)
(* maps of the four features whose outputs are negative, zero, fractional  *)
(* and positive.  Every async route has no await, so it is one atomic step.*)
(***************************************************************************)
EXTENDS Integers, Sequences, FiniteSets, TLC

VARIABLES disk, process, model, model_at_start,
          endpoint, request, input_data, target_months, response

vars == <<disk, process, model, model_at_start,
          endpoint, request, input_data, target_months, response>>

(***************************************************************************)
(* Bounds of the model.                                                    *)
(***************************************************************************)
MaxDurationYears == 2
MaxDirectTarget == 3

(***************************************************************************)
(* Exact rational arithmetic standing for Python float arithmetic.         *)
(***************************************************************************)
R(i) == [n |-> i, d |-> 1]
RAdd(a, b) == [n |-> a.n * b.d + b.n * a.d, d |-> a.d * b.d]
RSub(a, b) == [n |-> a.n * b.d - b.n * a.d, d |-> a.d * b.d]
RMul(a, b) == [n |-> a.n * b.n, d |-> a.d * b.d]
\* a / b for b > 0 (every divisor in the source is a validated positive field)
RDiv(a, b) == [n |-> a.n * b.d, d |-> a.d * b.n]
RGt(a, b) == a.n * b.d > b.n * a.d

\* Python 3 round(x) with no ndigits: nearest integer, ties to the even one.
round(x) ==
    LET q == x.n \div x.d
        r == x.n % x.d
    IN  IF 2 * r < x.d THEN q
        ELSE IF 2 * r > x.d THEN q + 1
        ELSE IF q % 2 = 0 THEN q ELSE q + 1

max(a, b) == IF a >= b THEN a ELSE b

\* clip that forgets the lower bound
clip_no_floor(v, lo, hi) == IF v > hi THEN hi ELSE v

\* np.clip(v, lo, hi)
clip(v, lo, hi) == IF v < lo THEN lo ELSE IF v > hi THEN hi ELSE v

(***************************************************************************)
(* The model artifact.                                                     *)
(***************************************************************************)
MODEL_PATH == "financial_model.pkl"

ModelIds == {"const_neg", "const_mid", "rate_gap", "rate_half"}

\* generate_synthetic_data seeds numpy with 42 and the forest is fitted with
\* random_state=42: every run of the trainer writes the same artifact
TrainedArtifact == "const_mid"

\* Linear stand-ins for the pickled regressor: raw = (w . features + b) / k
Weights(m) ==
    CASE m = "const_neg" -> [ni |-> 0, rsr |-> 0, s |-> 0, e |-> 0, b |-> -3, k |-> 2]
      [] m = "const_mid" -> [ni |-> 0, rsr |-> 0, s |-> 0, e |-> 0, b |-> 27, k |-> 2]
      [] m = "rate_gap"  -> [ni |-> -1, rsr |-> 1, s |-> 0, e |-> 0, b |-> 0, k |-> 1]
      [] m = "rate_half" -> [ni |-> 0, rsr |-> 1, s |-> 0, e |-> 0, b |-> 1, k |-> 2]

\* model.predict(data)[0] for the row (net_income, required_savings_rate, salary, expenses)
model_predict(m, net_income, required_savings_rate, salary, expenses) ==
    LET w == Weights(m)
        sum == RAdd(RAdd(RMul(R(w.ni), net_income),
                         RMul(R(w.rsr), required_savings_rate)),
                    RAdd(RAdd(RMul(R(w.s), salary), RMul(R(w.e), expenses)),
                         R(w.b)))
    IN  RDiv(sum, R(w.k))

DiskStates == {"missing", "corrupt"} \cup ModelIds

(***************************************************************************)
(* FinancialInput: the validated request body.                             *)
(***************************************************************************)
Salaries == {2, 3, 200, 100000}
ExpenseAmounts == {1, 3, 50000, 60000}
GoalAmounts == {1, 12, 48, 2358, 240000, 600000}
GoalTypes == {"car", "trip"}
\* Optional float in [0,100]: <<>> is None
SavingsPercents == {<<>>, <<50>>}

FinancialInput ==
    [salary : Salaries, expenses : ExpenseAmounts, goal_amount : GoalAmounts,
     goal_type : GoalTypes, duration_years : 1..MaxDurationYears,
     savings_percent : SavingsPercents]

NoInput == [salary |-> 0]
NoResponse == [status |-> 0]

\* PredictionResponse(...): pydantic enforces ge=1 and ge=1, le=100
PredictionResponse(goal_type, predicted_months, recommended_savings_percent, insight) ==
    IF predicted_months >= 1 /\ recommended_savings_percent >= 1
       /\ recommended_savings_percent <= 100
    THEN [status |-> 200, goal_type |-> goal_type,
          predicted_months |-> predicted_months,
          recommended_savings_percent |-> recommended_savings_percent,
          insight |-> insight]
    ELSE [status |-> 500, goal_type |-> goal_type,
          predicted_months |-> predicted_months,
          recommended_savings_percent |-> recommended_savings_percent,
          insight |-> insight]

(***************************************************************************)
(* Helper functions.                                                       *)
(***************************************************************************)
\* a predictor that also feeds savings_percent to the regressor
raw_prediction_with_savings(inp, m) ==
    LET net_income == RSub(R(inp.salary), R(inp.expenses))
        required_savings_rate == RDiv(R(inp.goal_amount), R(inp.duration_years * 12))
        savings == IF inp.savings_percent = <<>> THEN 0 ELSE inp.savings_percent[1]
    IN  RAdd(model_predict(m, net_income, required_savings_rate,
                           R(inp.salary), R(inp.expenses)),
             R(savings))

\* the value of model.predict(data)[0] inside predict_time_to_goal
raw_prediction(inp, m) ==
    LET net_income == RSub(R(inp.salary), R(inp.expenses))
        required_savings_rate == RDiv(R(inp.goal_amount), R(inp.duration_years * 12))
    IN  model_predict(m, net_income, required_savings_rate,
                      R(inp.salary), R(inp.expenses))

\* the prediction without the minimum of one month
predict_time_to_goal_unclamped(inp, m) == round(raw_prediction(inp, m))

predict_time_to_goal(inp, m) == max(1, round(raw_prediction(inp, m)))

\* no early return and no upper cap: the percent of salary as computed
calculate_recommendation_uncapped(inp, tm) ==
    LET monthly_savings_needed == RDiv(R(inp.goal_amount), R(tm))
        recommended_savings_amount == RAdd(monthly_savings_needed, R(inp.expenses))
        recommended_percent == RMul(RDiv(recommended_savings_amount, R(inp.salary)), R(100))
    IN  max(1, round(recommended_percent))

\* the infeasible branch recommends the whole net income as a percent of salary
calculate_recommendation_max_net(inp, tm) ==
    LET monthly_savings_needed == RDiv(R(inp.goal_amount), R(tm))
        net_income == RSub(R(inp.salary), R(inp.expenses))
        recommended_savings_amount == RAdd(monthly_savings_needed, R(inp.expenses))
        recommended_percent == RMul(RDiv(recommended_savings_amount, R(inp.salary)), R(100))
    IN  IF RGt(monthly_savings_needed, net_income)
        THEN clip(round(RMul(RDiv(net_income, R(inp.salary)), R(100))), 1, 100)
        ELSE clip(round(recommended_percent), 1, 100)

\* the percent as the comment above it words it: (total required - expenses) / salary
calculate_recommendation_goal_only(inp, tm) ==
    LET monthly_savings_needed == RDiv(R(inp.goal_amount), R(tm))
        net_income == RSub(R(inp.salary), R(inp.expenses))
        recommended_percent == RMul(RDiv(monthly_savings_needed, R(inp.salary)), R(100))
    IN  IF RGt(monthly_savings_needed, net_income)
        THEN 100
        ELSE clip(round(recommended_percent), 1, 100)

calculate_recommendation(inp, tm) ==
    LET monthly_savings_needed == RDiv(R(inp.goal_amount), R(tm))
        net_income == RSub(R(inp.salary), R(inp.expenses))
        recommended_savings_amount == RAdd(monthly_savings_needed, R(inp.expenses))
        recommended_percent == RMul(RDiv(recommended_savings_amount, R(inp.salary)), R(100))
    IN  IF RGt(monthly_savings_needed, net_income)
        THEN 100
        ELSE clip(round(recommended_percent), 1, 100)

\* f"{x:.0f}" / f"{x:,.0f}": the value printed with no decimals
format_0f(x) == round(x)

\* the gap branch taken when the gap is zero too
predict_insight_zero_gap(inp, predicted_months, tm, recommended_savings_percent) ==
    LET current_savings_rate ==
            RMul(RDiv(RSub(R(inp.salary), R(inp.expenses)), R(inp.salary)), R(100))
        current_savings == RSub(R(inp.salary), R(inp.expenses))
        required_savings_per_month == RDiv(R(inp.goal_amount), R(tm))
        extra_savings_needed == RSub(required_savings_per_month, current_savings)
    IN  IF predicted_months <= tm
        THEN [kind |-> "on_track", percent |-> format_0f(current_savings_rate),
              amount |-> format_0f(current_savings), months |-> predicted_months]
        ELSE IF ~RGt(R(0), extra_savings_needed)
        THEN [kind |-> "behind_gap", years |-> inp.duration_years,
              amount |-> format_0f(extra_savings_needed),
              percent |-> recommended_savings_percent]
        ELSE [kind |-> "model_noise", percent |-> recommended_savings_percent,
              years |-> inp.duration_years]

\* the gap measured against the salary, the expenses forgotten
predict_insight_salary_gap(inp, predicted_months, tm, recommended_savings_percent) ==
    LET current_savings_rate ==
            RMul(RDiv(RSub(R(inp.salary), R(inp.expenses)), R(inp.salary)), R(100))
        current_savings == RSub(R(inp.salary), R(inp.expenses))
        required_savings_per_month == RDiv(R(inp.goal_amount), R(tm))
        extra_savings_needed == RSub(required_savings_per_month, R(inp.salary))
    IN  IF predicted_months <= tm
        THEN [kind |-> "on_track", percent |-> format_0f(current_savings_rate),
              amount |-> format_0f(current_savings), months |-> predicted_months]
        ELSE IF RGt(extra_savings_needed, R(0))
        THEN [kind |-> "behind_gap", years |-> inp.duration_years,
              amount |-> format_0f(extra_savings_needed),
              percent |-> recommended_savings_percent]
        ELSE [kind |-> "model_noise", percent |-> recommended_savings_percent,
              years |-> inp.duration_years]

\* step 3 of predict_goal_achievement: the insight text, as its branch and the
\* numbers it prints
predict_insight(inp, predicted_months, tm, recommended_savings_percent) ==
    LET current_savings_rate ==
            RMul(RDiv(RSub(R(inp.salary), R(inp.expenses)), R(inp.salary)), R(100))
        current_savings == RSub(R(inp.salary), R(inp.expenses))
        required_savings_per_month == RDiv(R(inp.goal_amount), R(tm))
        extra_savings_needed == RSub(required_savings_per_month, current_savings)
    IN  IF predicted_months <= tm
        THEN [kind |-> "on_track", percent |-> format_0f(current_savings_rate),
              amount |-> format_0f(current_savings), months |-> predicted_months]
        ELSE IF RGt(extra_savings_needed, R(0))
        THEN [kind |-> "behind_gap", years |-> inp.duration_years,
              amount |-> format_0f(extra_savings_needed),
              percent |-> recommended_savings_percent]
        ELSE [kind |-> "model_noise", percent |-> recommended_savings_percent,
              years |-> inp.duration_years]

\* POST /predict
predict_goal_achievement(inp, m) ==
    LET predicted_months == predict_time_to_goal(inp, m)
        tm == inp.duration_years * 12
        recommended_savings_percent == calculate_recommendation(inp, tm)
        insight_text == predict_insight(inp, predicted_months, tm,
                                        recommended_savings_percent)
    IN  [input_data |-> inp, target_months |-> tm,
         response |-> PredictionResponse(inp.goal_type, predicted_months,
                                         recommended_savings_percent, insight_text)]

\* the warning given for the infeasible goals only
recommend_insight_flagged(inp, recommended_savings_percent) ==
    IF inp.goal_amount > (inp.salary - inp.expenses) * inp.duration_years * 12
    THEN [kind |-> "warning"]
    ELSE LET required_savings_amount ==
                 RMul(RDiv(R(recommended_savings_percent), R(100)), R(inp.salary))
             extra_amount_over_expenses ==
                 RSub(required_savings_amount, R(inp.expenses))
         IN  [kind |-> "plan", goal_type |-> inp.goal_type,
              years |-> inp.duration_years,
              amount |-> format_0f(extra_amount_over_expenses)]

\* step 2 of get_savings_recommendation
recommend_insight(inp, recommended_savings_percent) ==
    IF recommended_savings_percent = 100
    THEN [kind |-> "warning"]
    ELSE LET required_savings_amount ==
                 RMul(RDiv(R(recommended_savings_percent), R(100)), R(inp.salary))
             extra_amount_over_expenses ==
                 RSub(required_savings_amount, R(inp.expenses))
         IN  [kind |-> "plan", goal_type |-> inp.goal_type,
              years |-> inp.duration_years,
              amount |-> format_0f(extra_amount_over_expenses)]

\* POST /recommend
get_savings_recommendation(inp, m) ==
    LET tm == inp.duration_years * 12
        recommended_savings_percent == calculate_recommendation(inp, tm)
        insight_text == recommend_insight(inp, recommended_savings_percent)
        overridden == [inp EXCEPT !.savings_percent = <<recommended_savings_percent>>]
        predicted_months == predict_time_to_goal(overridden, m)
    IN  [input_data |-> overridden, target_months |-> tm,
         response |-> PredictionResponse(inp.goal_type, predicted_months,
                                         recommended_savings_percent, insight_text)]

\* GET /
read_root == [status |-> 200, message |-> "AI Financial Planner API is running."]

\* a /train that swaps the freshly trained artifact into the process
train_model_route_swaps(m) ==
    [model |-> TrainedArtifact,
     response |-> [status |-> 200, message |-> "Model re-training initiated."]]

\* POST /train: a placeholder, the in-memory model is what it was
train_model_route(m) ==
    [model |-> m,
     response |-> [status |-> 200, message |-> "Model re-training initiated."]]

(***************************************************************************)
(* The serving process.  `request` is the body the client posts to         *)
(* /predict and /recommend; the handlers keep nothing between requests, so *)
(* one body per behaviour, drawn in Init, covers every request sequence.   *)
(***************************************************************************)
Init ==
    /\ disk \in DiskStates
    /\ process = "importing"
    /\ model = "unset"
    /\ model_at_start = "unset"
    /\ endpoint = "none"
    /\ request \in FinancialInput
    /\ input_data = NoInput
    /\ target_months = 0
    /\ response = NoResponse

\* os.path.exists(MODEL_PATH) is false: FileNotFoundError
LoadMissing ==
    /\ process = "importing"
    /\ disk = "missing"
    /\ process' = "failed"
    /\ UNCHANGED <<disk, model, model_at_start, endpoint, request, input_data,
                   target_months, response>>

\* joblib.load raises: RuntimeError
LoadFails ==
    /\ process = "importing"
    /\ disk = "corrupt"
    /\ process' = "failed"
    /\ UNCHANGED <<disk, model, model_at_start, endpoint, request, input_data,
                   target_months, response>>

\* model = joblib.load(MODEL_PATH)
LoadModel ==
    /\ process = "importing"
    /\ disk \in ModelIds
    /\ model' = disk
    /\ model_at_start' = disk
    /\ process' = "loaded"
    /\ UNCHANGED <<disk, endpoint, request, input_data, target_months, response>>

\* app = FastAPI(...), add_middleware, uvicorn.run(app, ...)
Serve ==
    /\ process = "loaded"
    /\ process' = "serving"
    /\ UNCHANGED <<disk, model, model_at_start, endpoint, request, input_data,
                   target_months, response>>

HandlePredict ==
    /\ process = "serving"
    /\ LET out == predict_goal_achievement(request, model)
       IN  /\ input_data' = out.input_data
           /\ target_months' = out.target_months
           /\ response' = out.response
    /\ endpoint' = "/predict"
    /\ UNCHANGED <<disk, process, model, model_at_start, request>>

HandleRecommend ==
    /\ process = "serving"
    /\ LET out == get_savings_recommendation(request, model)
       IN  /\ input_data' = out.input_data
           /\ target_months' = out.target_months
           /\ response' = out.response
    /\ endpoint' = "/recommend"
    /\ UNCHANGED <<disk, process, model, model_at_start, request>>

HandleRoot ==
    /\ process = "serving"
    /\ endpoint' = "/"
    /\ input_data' = NoInput
    /\ target_months' = 0
    /\ response' = read_root
    /\ UNCHANGED <<disk, process, model, model_at_start, request>>

HandleTrain ==
    /\ process = "serving"
    /\ LET out == train_model_route(model)
       IN  /\ model' = out.model
           /\ response' = out.response
    /\ endpoint' = "/train"
    /\ input_data' = NoInput
    /\ target_months' = 0
    /\ UNCHANGED <<disk, process, model_at_start, request>>

\* model_trainer.py run as a script: joblib.dump(model, MODEL_PATH) overwrites
\* the artifact, whatever the serving process is doing
train_and_save_model ==
    /\ disk' = TrainedArtifact
    /\ UNCHANGED <<process, model, model_at_start, endpoint, request, input_data,
                   target_months, response>>

Next ==
    \/ LoadMissing
    \/ LoadFails
    \/ LoadModel
    \/ Serve
    \/ HandlePredict
    \/ HandleRecommend
    \/ HandleRoot
    \/ HandleTrain
    \/ train_and_save_model

Spec == Init /\ [][Next]_vars

(***************************************************************************)
(* calculate_recommendation called directly, with any positive target.     *)
(***************************************************************************)
DirectTargets == (1..MaxDirectTarget) \cup {12 * y : y \in 1..MaxDurationYears}

InitCalc ==
    /\ disk = "const_mid"
    /\ process = "loaded"
    /\ model = "const_mid"
    /\ model_at_start = "const_mid"
    /\ endpoint = "none"
    /\ request \in FinancialInput
    /\ input_data = request
    /\ target_months \in DirectTargets
    /\ response = NoResponse

CallCalculateRecommendation ==
    /\ endpoint = "none"
    /\ endpoint' = "calculate_recommendation"
    /\ response' = [status |-> 200,
                    recommended_savings_percent |->
                        calculate_recommendation(input_data, target_months)]
    /\ UNCHANGED <<disk, process, model, model_at_start, request, input_data,
                   target_months>>

NextCalc == CallCalculateRecommendation

SpecCalc == InitCalc /\ [][NextCalc]_vars

(***************************************************************************)
(* Properties.                                                             *)
(***************************************************************************)
Abs(i) == IF i < 0 THEN -i ELSE i

\* the integer nearest to n/d (d > 0, n >= 0), the even one of two equally near
Nearest(n, d) ==
    LET cands == {k \in 0..((n \div d) + 1) : 2 * Abs(k * d - n) <= d}
    IN  CHOOSE k \in cands : Cardinality(cands) = 1 \/ k % 2 = 0

Called == endpoint = "calculate_recommendation"
Percent == response.recommended_savings_percent

\* goalAmount/targetMonths > salary - expenses, for the target of the state
Infeasible ==
    request.goal_amount > (request.salary - request.expenses) * target_months

\* 100 * (goalAmount/targetMonths + expenses) / salary as numerator and denominator
PercentNum == 100 * (request.goal_amount + request.expenses * target_months)
PercentDen == request.salary * target_months

\* C1: calculate_recommendation returns an integer r with 1 <= r <= 100 for
\* every valid profile (expenses above salary included) and every positive
\* target.
C1_RecommendationInRange == Called => Percent \in 1..100

\* the computed percent is below one half and the result is clamped up to 1
C1_Witness == Called /\ 2 * PercentNum < PercentDen /\ Percent = 1

\* C3: whenever goalAmount/targetMonths > salary - expenses the result is
\* exactly 100.
C3_InfeasibleGives100 == Called /\ Infeasible => Percent = 100

\* salary=100000, expenses=60000, goalAmount=600000, targetMonths=12
C3_Witness ==
    /\ Called
    /\ request.salary = 100000 /\ request.expenses = 60000
    /\ request.goal_amount = 600000 /\ target_months = 12
    /\ Infeasible
    /\ Percent = 100

\* C4: with everything else fixed, a larger goalAmount never gets a smaller
\* recommendation, also across the switch from the feasible to the infeasible
\* branch.
C4_MonotoneInGoal ==
    Called =>
        \A g2 \in GoalAmounts :
            g2 >= request.goal_amount =>
                calculate_recommendation([input_data EXCEPT !.goal_amount = g2],
                                         target_months) >= Percent

\* a feasible goal below 100 percent with a larger, infeasible goal next to it
C4_Witness ==
    /\ Called
    /\ ~Infeasible
    /\ Percent < 100
    /\ \E g2 \in GoalAmounts :
          /\ g2 > request.goal_amount
          /\ g2 > (request.salary - request.expenses) * target_months

Predicted == endpoint \in {"/predict", "/recommend"}

\* C2: predict_time_to_goal returns an integer >= 1 that is max(1, round(raw))
\* whatever the raw output: 1 below one and a half, else the nearest integer
\* (the even one on a tie).
C2_PredictedAtLeastOne ==
    Predicted =>
        LET raw == raw_prediction(input_data, model)
            pm == response.predicted_months
        IN  /\ pm >= 1
            /\ 2 * raw.n < 3 * raw.d => pm = 1
            /\ 2 * raw.n >= 3 * raw.d =>
                   /\ 2 * Abs(pm * raw.d - raw.n) <= raw.d
                   /\ 2 * Abs(pm * raw.d - raw.n) = raw.d => pm % 2 = 0

\* a negative raw output served as one month
C2_Witness ==
    /\ endpoint = "/predict"
    /\ raw_prediction(input_data, model).n < 0
    /\ response.predicted_months = 1

\* C6: /predict selects exactly one narrative: on-track iff predicted <=
\* target, behind-with-gap iff predicted > target and the gap is positive,
\* model-noise iff predicted > target and the gap is not positive.
C6_ExactlyOneNarrative ==
    endpoint = "/predict" =>
        LET pm == response.predicted_months
            tm == request.duration_years * 12
            gap == request.goal_amount > (request.salary - request.expenses) * tm
            kind == response.insight.kind
        IN  /\ kind \in {"on_track", "behind_gap", "model_noise"}
            /\ kind = "on_track" <=> pm <= tm
            /\ kind = "behind_gap" <=> (pm > tm /\ gap)
            /\ kind = "model_noise" <=> (pm > tm /\ ~gap)

\* predicted beyond the target although the required savings equal the net income
C6_Witness ==
    /\ endpoint = "/predict"
    /\ response.predicted_months > target_months
    /\ request.goal_amount = (request.salary - request.expenses) * target_months
    /\ response.insight.kind = "model_noise"

C8_ModelLoadedAtStart ==
    /\ endpoint # "none" => process = "serving"
    /\ process = "failed" => model = "unset" /\ response = NoResponse
    /\ process \in {"loaded", "serving"} =>
           model \in ModelIds /\ model = model_at_start
    /\ Predicted =>
           response.predicted_months = predict_time_to_goal(input_data, model_at_start)

\* a prediction served after the artifact on disk was overwritten
C8_Witness ==
    /\ endpoint = "/predict"
    /\ disk # model_at_start
    /\ response.predicted_months = predict_time_to_goal(request, model_at_start)

====
